---- MODULE Spec2Model ----
(***************************************************************************)
(* The realtime communication bridge of real-time-agent: the websocket     *)
(* handler `realtime`, the CommunicationHandler it drives and the          *)
(* dispatcher task CommunicationHandler starts.                            *)
(*                                                                         *)
(* Scheduling is asyncio's: one cooperative event loop.  A coroutine runs  *)
(* without interleaving from one `await` that suspends to the next, so     *)
(* every action below is the code between two suspension points and every  *)
(* value of hpc / dpc is a suspension point.                               *)
(*                                                                         *)
(* The websocket, the model session and its event stream are collaborators *)
(* outside the repository; they are modelled at the interface the code     *)
(* uses, and whatever they may do there (return, raise, change the         *)
(* connection state) is a nondeterministic choice.                         *)
(***************************************************************************)
EXTENDS Integers, Sequences, FiniteSets, TLC

VARIABLES
    variant,            \* which backend tree serves the call: "app" or "legacy"
    hpc,                \* suspension point of the handler coroutine `realtime`
    error_occurred,     \* local of `realtime`
    pending,            \* exception propagating through the handler's finally block
    escaped,            \* exception that left the handler ("none": returned normally)
    pump_end,           \* how the inbound pump ended: "none", "returned", "raised"
    pump_error,         \* the exception that ended the inbound pump
    client_state,       \* websocket.client_state
    frames_received,    \* number of control frames read by the pump
    audio_arg,          \* argument of the send_audio call in progress
    pushed,             \* audio pushes made to the model session, in order
    received,           \* control frames read by the pump, in order
    warnings,           \* logger.warning calls made by the pump
    session_context,    \* "none", "created", "entered", "exited"
    receive_task,       \* "none", "pending", "done", "failed", "cancelled"
    cancel_requested,   \* receive_task.cancel() was called on a task not yet done
    tasks_created,      \* asyncio.create_task calls made for the bridge
    end_session_error,  \* exception that left the last end_session call
    task_error,         \* exception the dispatcher task ended with
    dpc,                \* suspension point of process_realtime_messages
    out_frame,          \* frame of the websocket.send_text in progress
    events_seen,        \* number of model events the dispatcher consumed
    ws_sent,            \* what was written to the client connection, in order
    close_calls,        \* websocket.close calls: code and client_state at the call
    end_session_calls,  \* invocations of end_session
    task_at_call,       \* state of receive_task when end_session was last called
    aexit_calls,        \* runs of session_context.__aexit__
    cancel_calls,       \* invocations of receive_task.cancel()
    event_log,          \* history: the model events the dispatcher consumed
    cb_events,          \* the batch of callback events of one request
    cb_pc,              \* position of process_callback_event
    cb_i,               \* index of the event the loop is at
    cb_visited,         \* the events the loop body has run for, in order
    cb_warnings,        \* logger.warning calls of process_callback_event
    cb_error,           \* exception that left process_callback_event
    cb_awaited,         \* whether the coroutine was awaited by its caller
    status,             \* RealTimeAgent._status
    conversation_history, \* RealTimeAgent.conversation_history
    event_handler,      \* whether the agent was given an event handler
    streaming,          \* config.streaming
    apc,                \* suspension point of the agent call in progress
    a_arg,              \* the message of the agent call in progress
    a_exc,              \* the exception an except block of the agent holds
    a_provider,         \* outcome of the last provider.initialize()
    notified,           \* calls made on the event handler, in order
    calls,              \* the agent calls that have finished, in order
    hist_at_call,       \* conversation_history when the last call began
    notified_at_call,   \* notified when the last call began
    got_history,        \* what get_conversation_history returned last
    generate_calls,     \* number of calls of provider.generate_response
    gen_pc,             \* position of the generator send_message returned
    gen_chunk,          \* the chunk the generator handles or has yielded
    accumulated_content, \* accumulated_content of the generator
    session,            \* CommunicationHandler.session
    max_attempts,       \* AsyncRetry.max_attempts
    delay,              \* AsyncRetry.delay
    backoff_factor,     \* AsyncRetry.backoff_factor
    rpc,                \* position of AsyncRetry.__call__
    attempt,            \* the loop variable of __call__
    last_exception,     \* last_exception of __call__
    current_delay,      \* current_delay of __call__
    func_calls,         \* the outcomes of the calls of func, in order
    sleeps,             \* the delays slept, in order
    retry_result,       \* how __call__ ended
    in_module,          \* the module process_incoming_call_event is taken from
    in_events,          \* the batch given to process_incoming_call_event
    in_i,               \* index of the event the loop is at
    in_pc,              \* position of process_incoming_call_event
    answer_calls,       \* the calls of client.answer_call, in order
    in_result           \* what process_incoming_call_event returned or raised

hvars == <<variant, hpc, error_occurred, pending, escaped, pump_end, pump_error>>
wvars == <<client_state, frames_received, audio_arg, pushed, received, warnings>>
svars == <<session_context, receive_task, cancel_requested, aexit_calls, cancel_calls,
           tasks_created, end_session_error>>
dvars == <<task_error, dpc, out_frame, events_seen>>
vars == <<variant, hpc, error_occurred, pending, escaped, pump_end, pump_error,
          client_state, frames_received, audio_arg, pushed, received, warnings,
          session_context, receive_task, cancel_requested, tasks_created,
          end_session_error, task_error, dpc, out_frame,
          events_seen, ws_sent, close_calls, end_session_calls, task_at_call,
          aexit_calls,
          cancel_calls, event_log,
          cb_events, cb_pc, cb_i, cb_visited, cb_warnings, cb_error, cb_awaited,
          status, conversation_history, event_handler, streaming, apc, a_arg,
          a_exc, a_provider, notified, calls, hist_at_call,
          notified_at_call, got_history, generate_calls, gen_pc, gen_chunk,
          accumulated_content, session,
          max_attempts, delay, backoff_factor, rpc, attempt, last_exception,
          current_delay, func_calls, sleeps, retry_result,
          in_module, in_events, in_i, in_pc, answer_calls, in_result>>

\* The variables of the websocket bridge.
bridge == <<hvars, wvars, svars, dvars, ws_sent, close_calls, end_session_calls,
            task_at_call, session>>
\* The variables of the callback endpoint.
cvars == <<cb_events, cb_pc, cb_i, cb_visited, cb_warnings, cb_error, cb_awaited>>
\* The variables of RealTimeAgent.
avars == <<status, conversation_history, event_handler, streaming, apc, a_arg,
           a_exc, a_provider, notified, calls, hist_at_call>>
\* The variables of the generator send_message returns, and records of the
\* agent's calls.
xvars == <<notified_at_call, got_history, generate_calls, gen_pc, gen_chunk,
           accumulated_content>>
\* The variables of AsyncRetry.
rvars == <<max_attempts, delay, backoff_factor, rpc, attempt, last_exception,
           current_delay, func_calls, sleeps, retry_result>>
\* The variables of process_incoming_call_event.
ivars == <<in_module, in_events, in_i, in_pc, answer_calls, in_result>>
\* The variables of the components other than the bridge.
ovars == <<cvars, avars, xvars, rvars, ivars>>
\* The variables a step of the callback endpoint leaves alone.
noncb == <<bridge, event_log, avars, xvars, rvars, ivars>>
\* The variables a step of the agent leaves alone.
nonagent == <<bridge, event_log, cvars, rvars, ivars>>
\* The variables a step of AsyncRetry leaves alone.
nonretry == <<bridge, event_log, cvars, avars, xvars, ivars>>
\* The variables a step of process_incoming_call_event leaves alone.
nonincoming == <<bridge, event_log, cvars, avars, xvars, rvars>>

(***************************************************************************)
(* Bounds of the model.                                                    *)
(***************************************************************************)
MaxFrames == 2
MaxEvents == 2
MaxBatch == 2
MaxCalls == 4
MaxAttempts == 3

(***************************************************************************)
(* Program constants.                                                      *)
(***************************************************************************)
CLOSE_INTERNAL_ERROR == 1011
CLOSE_NORMAL == 1000

Outcomes == {"ok", "raise"}
ConnStates == {"CONNECTED", "DISCONNECTED"}

(***************************************************************************)
(* AudioFrameCodec: bytes are sequences over 0..255, base64 text is a      *)
(* sequence of sextets 0..63 with Pad for '=' and Junk for a character     *)
(* outside the alphabet.                                                   *)
(***************************************************************************)
Pad == 64
Junk == 65

RECURSIVE b64encode(_)
b64encode(bs) ==
    IF Len(bs) = 0 THEN <<>>
    ELSE IF Len(bs) = 1 THEN
        <<bs[1] \div 4, (bs[1] % 4) * 16, Pad, Pad>>
    ELSE IF Len(bs) = 2 THEN
        <<bs[1] \div 4, (bs[1] % 4) * 16 + bs[2] \div 16, (bs[2] % 16) * 4, Pad>>
    ELSE
        <<bs[1] \div 4, (bs[1] % 4) * 16 + bs[2] \div 16,
          (bs[2] % 16) * 4 + bs[3] \div 64, bs[3] % 64>>
        \o b64encode(SubSeq(bs, 4, Len(bs)))

IsSextet(c) == c < Pad

RECURSIVE DecodeQuads(_)
DecodeQuads(s) ==
    IF Len(s) = 0 THEN [ok |-> TRUE, bytes |-> <<>>]
    ELSE IF Len(s) < 4 \/ ~IsSextet(s[1]) \/ ~IsSextet(s[2]) THEN
        [ok |-> FALSE, bytes |-> <<>>]
    ELSE IF s[3] = Pad THEN
        \* a padded quad ends the data: what follows it is ignored
        IF s[4] = Pad
        THEN [ok |-> TRUE, bytes |-> <<s[1] * 4 + s[2] \div 16>>]
        ELSE [ok |-> FALSE, bytes |-> <<>>]
    ELSE IF s[4] = Pad THEN
        [ok |-> TRUE,
         bytes |-> <<s[1] * 4 + s[2] \div 16,
                     (s[2] % 16) * 16 + s[3] \div 4>>]
    ELSE
        LET rest == DecodeQuads(SubSeq(s, 5, Len(s)))
        IN  [ok |-> rest.ok,
             bytes |-> <<s[1] * 4 + s[2] \div 16,
                         (s[2] % 16) * 16 + s[3] \div 4,
                         (s[3] % 4) * 64 + s[4]>> \o rest.bytes]

NotJunk(c) == c # Junk

\* base64.b64decode(text) with validate=False: characters outside the
\* alphabet are discarded, then the text must be whole, correctly padded quads.
b64decode(text) == DecodeQuads(SelectSeq(text, NotJunk))

AudioPool == {<<97, 98, 99>>, <<120, 121>>}

(***************************************************************************)
(* Control frames read from the client.  audioData is "absent" (no key),   *)
(* "null" (JSON null) or "object"; data is "absent" (no key) or "str",     *)
(* and then text is the base64 text.                                       *)
(***************************************************************************)
Frame(t, a, d, x) == [type |-> t, audioData |-> a, data |-> d, text |-> x]

Frames ==
    {Frame("AudioData", "object", "str", b64encode(b)) : b \in AudioPool}
    \cup {Frame("AudioData", "object", "str", <<>>),
          Frame("AudioData", "object", "str", <<24, 22, Junk>>),
          Frame("AudioData", "object", "absent", <<>>),
          Frame("AudioData", "absent", "absent", <<>>),
          Frame("AudioData", "null", "absent", <<>>),
          Frame("StopAudio", "absent", "absent", <<>>),
          Frame("Bogus", "absent", "absent", <<>>),
          Frame("absent", "absent", "absent", <<>>)}

\* Mutant of DecodePayload: the base64 text is passed on undecoded, as the
\* legacy recive_audio does.
PayloadNotDecoded(f) == [ok |-> TRUE, bytes |-> f.text]

\* audio_data_bytes = base64.b64decode(audio_data_base64)
DecodePayload(f) == b64decode(f.text)

\* Mutant of UnknownTag: a tag that is not recognized raises.
UnknownTagRaises ==
    [do |-> "raise", audio |-> <<>>, exc |-> "ValueError", warn |-> FALSE]

\* case _: logger.warning(...)
UnknownTag == [do |-> "skip", audio |-> <<>>, exc |-> "none", warn |-> TRUE]

\* What the body of the pump's match statement does with one frame:
\* "push" (await send_audio with `audio`), "skip" (fall through to the loop
\* test) or "raise".
FrameEffect(f) ==
    IF f.type # "AudioData" THEN UnknownTag
    ELSE IF f.audioData = "null"
         \* None.get("data", None)
         THEN [do |-> "raise", audio |-> <<>>, exc |-> "AttributeError", warn |-> FALSE]
    ELSE IF f.audioData = "absent" \/ f.data = "absent"
         \* base64.b64decode(None)
         THEN [do |-> "raise", audio |-> <<>>, exc |-> "TypeError", warn |-> FALSE]
    ELSE LET dec == DecodePayload(f)
         IN  IF ~dec.ok
             THEN [do |-> "raise", audio |-> <<>>, exc |-> "binascii.Error",
                   warn |-> FALSE]
             ELSE IF Len(dec.bytes) > 0
             THEN [do |-> "push", audio |-> dec.bytes, exc |-> "none", warn |-> FALSE]
             ELSE [do |-> "skip", audio |-> <<>>, exc |-> "none", warn |-> FALSE]

(***************************************************************************)
(* Frames written to the client.                                           *)
(***************************************************************************)
OutFrame(k, d) == [Kind |-> k, Data |-> d]
NoFrame == OutFrame("none", <<>>)
return_audio(audio) == OutFrame("AudioData", b64encode(audio))
interrupt_audio == OutFrame("StopAudio", <<>>)
CloseFrame(code) == OutFrame("Close", <<code>>)

(***************************************************************************)
(* Model events.  arg is the audio payload of an `audio` event ("none":    *)
(* event.audio is None, "empty": zero bytes) or whether a `tool_start`     *)
(* event carries its tool.                                                 *)
(***************************************************************************)
Event(t, a, b) == [type |-> t, arg |-> a, audio |-> b]

Events ==
    {Event("audio", "bytes", b) : b \in AudioPool}
    \cup {Event("audio", "empty", <<>>), Event("audio", "none", <<>>),
          Event("audio_interrupted", "none", <<>>),
          Event("tool_start", "tool", <<>>), Event("tool_start", "none", <<>>),
          Event("error", "none", <<>>),
          Event("raw_model_event", "none", <<>>),
          Event("agent_start", "none", <<>>),
          Event("unknown", "none", <<>>)}

\* Mutant of OnAudioInterrupted: the branch is `pass`, as in the legacy
\* process_realtime_messages.
OnAudioInterruptedPass == [do |-> "skip", frame |-> NoFrame]

\* elif event.type == "audio_interrupted": await self.interrupt_audio()
OnAudioInterrupted == [do |-> "send", frame |-> interrupt_audio]

\* Mutant of OnError: an error event is raised as an exception.
OnErrorRaises == [do |-> "raise", frame |-> NoFrame]

\* elif event.type == "error": logger.error(...)
OnError == [do |-> "skip", frame |-> NoFrame]

\* What the dispatch chain of process_realtime_messages does with one event.
EventEffect(ev) ==
    IF ev.type = "tool_start" THEN
        IF ev.arg = "tool" THEN [do |-> "skip", frame |-> NoFrame]
        ELSE [do |-> "raise", frame |-> NoFrame]
    ELSE IF ev.type = "audio" THEN
        IF ev.arg = "bytes" /\ Len(ev.audio) > 0
        THEN [do |-> "send", frame |-> return_audio(ev.audio)]
        ELSE [do |-> "skip", frame |-> NoFrame]
    ELSE IF ev.type = "audio_interrupted" THEN OnAudioInterrupted
    ELSE IF ev.type = "error" THEN OnError
    ELSE [do |-> "skip", frame |-> NoFrame]

BridgeInit ==
    /\ variant \in {"app", "legacy"}
    /\ hpc = "accept"
    /\ error_occurred = FALSE
    /\ pending = "none"
    /\ escaped = "none"
    /\ pump_end = "none"
    /\ pump_error = "none"
    /\ client_state = "CONNECTED"
    /\ frames_received = 0
    /\ audio_arg = <<>>
    /\ pushed = <<>>
    /\ received = <<>>
    /\ warnings = 0
    /\ session_context = "none"
    /\ receive_task = "none"
    /\ cancel_requested = FALSE
    /\ tasks_created = 0
    /\ end_session_error = "none"
    /\ task_error = "none"
    /\ dpc = "none"
    /\ out_frame = NoFrame
    /\ events_seen = 0
    /\ ws_sent = <<>>
    /\ close_calls = <<>>
    /\ end_session_calls = 0
    /\ task_at_call = "none"
    /\ aexit_calls = 0
    /\ cancel_calls = 0
    /\ session = "none"

\* No callback request is being served.
CallbackIdle ==
    /\ cb_events = <<>>
    /\ cb_pc = "idle"
    /\ cb_i = 1
    /\ cb_visited = <<>>
    /\ cb_warnings = 0
    /\ cb_error = "none"
    /\ cb_awaited = FALSE

\* Messages of the agent's conversation.
Message(t, c) == [type |-> t, content |-> c]
NoMessage == Message("none", "none")
\* A chunk of a streamed response.
Chunk(c, f) == [content |-> c, is_final |-> f]
NoChunk == Chunk("", FALSE)

\* No agent call was made: the state RealTimeAgent.__init__ leaves, without
\* event handler and with streaming off.
AgentNew ==
    /\ status = "DISCONNECTED"
    /\ conversation_history = <<>>
    /\ apc = "idle"
    /\ a_arg = NoMessage
    /\ a_exc = "none"
    /\ a_provider = "none"
    /\ notified = <<>>
    /\ calls = <<>>
    /\ hist_at_call = <<>>
    /\ notified_at_call = <<>>
    /\ got_history = <<>>
    /\ generate_calls = 0
    /\ gen_pc = "none"
    /\ gen_chunk = NoChunk
    /\ accumulated_content = ""

\* What __call__ has from its start, for a retry object built with
\* max_attempts m, delay d and backoff_factor b.
RetryNew(m, d, b) ==
    /\ max_attempts = m
    /\ delay = d
    /\ backoff_factor = b
    /\ attempt = 0
    /\ last_exception = "None"
    /\ current_delay = d
    /\ func_calls = <<>>
    /\ sleeps = <<>>
    /\ retry_result = "none"

\* No retry is being made.
RetryIdle == rpc = "idle" /\ RetryNew(0, 0, 0)

\* No Event-Grid batch is being processed.
IncomingIdle ==
    /\ in_module = "utils"
    /\ in_events = <<>>
    /\ in_i = 1
    /\ in_pc = "idle"
    /\ answer_calls = <<>>
    /\ in_result = "none"

\* The components other than the bridge are at rest.
OthersIdle ==
    /\ CallbackIdle
    /\ AgentNew /\ event_handler = FALSE /\ streaming = FALSE
    /\ RetryIdle
    /\ IncomingIdle

Init == BridgeInit /\ event_log = <<>> /\ OthersIdle

(***************************************************************************)
(* Control transfers of the handler `realtime`.  Each names the next       *)
(* suspension point and updates the handler's locals.                      *)
(***************************************************************************)
Goto(p) ==
    /\ hpc' = p
    /\ UNCHANGED <<error_occurred, pending, escaped, end_session_calls,
                   task_at_call>>

\* The handler coroutine finishes; exc # "none" leaves it as a raw exception.
Return(exc) ==
    /\ hpc' = "done"
    /\ pending' = "none"
    /\ escaped' = exc
    /\ UNCHANGED <<error_occurred, end_session_calls,
                   task_at_call>>

\* Mutant of Finally: end_session placed after the try statement instead of
\* in its finally block, so an exception in flight skips it.
FinallyAfterTry(exc) ==
    IF exc = "none"
    THEN /\ hpc' = "aexit"
         /\ pending' = exc
         /\ end_session_calls' = end_session_calls + 1
         /\ task_at_call' = receive_task
         /\ UNCHANGED <<error_occurred, escaped>>
    ELSE Return(exc)

\* finally: `await comm_handler.end_session()`, whose first statement
\* awaits session_context.__aexit__; exc is the exception in flight.
Finally(exc) ==
    /\ hpc' = "aexit"
    /\ pending' = exc
    /\ end_session_calls' = end_session_calls + 1
    /\ task_at_call' = receive_task
    /\ UNCHANGED <<error_occurred, escaped>>

\* Mutant of Except: the except block forgets `error_occurred = True`.
ExceptFlagNotSet ==
    /\ hpc' = "close1011"
    /\ UNCHANGED <<error_occurred, pending, escaped, end_session_calls,
                   task_at_call>>

\* except Exception: set the flag, then `await websocket.close(code=1011)`.
Except ==
    /\ hpc' = "close1011"
    /\ error_occurred' = TRUE
    /\ UNCHANGED <<pending, escaped, end_session_calls,
                   task_at_call>>

\* An exception e raised inside receive_audio: `except Exception` takes the
\* subclasses of Exception; CancelledError passes straight to finally.
PumpRaises(e) ==
    /\ pump_end' = "raised"
    /\ pump_error' = e
    /\ IF e = "CancelledError" THEN Finally(e) ELSE Except

\* The `while` test of receive_audio with client_state = cs.
LoopTest(cs) ==
    IF cs = "CONNECTED"
    THEN Goto("receive") /\ UNCHANGED <<pump_end, pump_error>>
    ELSE Finally("none") /\ pump_end' = "returned" /\ UNCHANGED pump_error

(***************************************************************************)
(* end_session.                                                            *)
(***************************************************************************)
\* receive_task.cancel(): a request, honoured when the task next runs; on a
\* task that is already done it does nothing.
Cancel ==
    /\ cancel_calls' = cancel_calls + 1
    /\ cancel_requested' = (cancel_requested \/ receive_task = "pending")

\* Mutant of EndSessionError: cancel() taken to raise on a task that has
\* already finished.
EndSessionErrorOnDoneTask(o) ==
    IF o = "raise" THEN "ExitError"
    ELSE IF receive_task # "pending" THEN "InvalidStateError"
    ELSE "none"

\* The exception that leaves app end_session when __aexit__ finished with
\* outcome o: the one __aexit__ raised.  receive_task.cancel() raises nothing,
\* whatever the state of the task, so the `except asyncio.CancelledError`
\* clause around it is never entered.
EndSessionError(o) == IF o = "raise" THEN "ExitError" ELSE "none"

\* Mutant of EndSessionAfterExit: the session is exited only while the task
\* is still running.
EndSessionExitIfTaskRuns(o) ==
    IF receive_task = "pending"
    THEN /\ aexit_calls' = aexit_calls + 1
         /\ session_context' = "exited"
         /\ end_session_error' = EndSessionError(o)
         /\ IF o = "ok" THEN Cancel ELSE UNCHANGED <<cancel_calls, cancel_requested>>
    ELSE /\ UNCHANGED <<aexit_calls, session_context>>
         /\ end_session_error' = "none"
         /\ Cancel

\* app end_session after `await session_context.__aexit__(None, None, None)`
\* finished with outcome o: the cancel follows only if it returned.
EndSessionAfterExit(o) ==
    /\ aexit_calls' = aexit_calls + 1
    /\ session_context' = "exited"
    /\ end_session_error' = EndSessionError(o)
    /\ IF o = "ok" THEN Cancel ELSE UNCHANGED <<cancel_calls, cancel_requested>>

(***************************************************************************)
(* The handler `realtime`.                                                 *)
(***************************************************************************)
\* app: websocket.accept() returns; the CommunicationHandler is built and
\* init_model_realtime_session runs up to `await real_time_runner.run(...)`.
AcceptApp ==
    /\ hpc = "accept" /\ variant = "app"
    /\ Goto("run")
    /\ UNCHANGED <<variant, pump_end, pump_error, ws_sent, close_calls>>
    /\ UNCHANGED <<wvars, svars, dvars>>
    /\ UNCHANGED <<event_log, ovars>>
    /\ UNCHANGED session

\* legacy: CommunicationHandler.__init__ is `async def`, so constructing the
\* handler raises TypeError before the try block is entered.
AcceptLegacy ==
    /\ hpc = "accept" /\ variant = "legacy"
    /\ Return("TypeError")
    /\ UNCHANGED <<variant, pump_end, pump_error, ws_sent, close_calls>>
    /\ UNCHANGED <<wvars, svars, dvars>>
    /\ UNCHANGED <<event_log, ovars>>
    /\ UNCHANGED session

\* receive_task = asyncio.create_task(self.process_realtime_messages()): the
\* task starts at the coroutine's first suspension point.
CreateTaskTwice ==
    /\ receive_task' = "pending"
    /\ dpc' = "next"
    /\ tasks_created' = tasks_created + 2

CreateTask ==
    /\ receive_task' = "pending"
    /\ dpc' = "next"
    /\ tasks_created' = tasks_created + 1

\* Mutant of EnterFails: the task is created before __aenter__ is awaited.
EnterFailsTaskStarted ==
    /\ Return("Exception")
    /\ receive_task' = "pending"
    /\ dpc' = "next"
    /\ tasks_created' = tasks_created + 1
    /\ UNCHANGED <<session_context, pump_end, pump_error>>

\* session_context.__aenter__ raises: the exception leaves
\* init_model_realtime_session, which is awaited outside the handler's try
\* block, before create_task is reached.
EnterFails ==
    /\ Return("Exception")
    /\ UNCHANGED <<session_context, receive_task, dpc, tasks_created>>
    /\ UNCHANGED <<pump_end, pump_error>>

\* real_time_runner.run returns the session context or raises.
RunnerRun(o) ==
    /\ hpc = "run"
    /\ IF o = "ok"
       THEN Goto("aenter") /\ session_context' = "created"
       ELSE Return("Exception") /\ UNCHANGED session_context
    /\ UNCHANGED <<variant, pump_end, pump_error, ws_sent, close_calls>>
    /\ UNCHANGED <<receive_task, cancel_requested, aexit_calls, cancel_calls>>
    /\ UNCHANGED <<tasks_created, end_session_error, wvars, dvars>>
    /\ UNCHANGED <<event_log, ovars>>
    /\ UNCHANGED session

PropertiesNotSet == UNCHANGED session

\* self.session = session, which follows create_task with no await between.
SetProperties == session' = "handle"

\* session_context.__aenter__ returns: the task is created, the properties
\* are set, the handler enters its try block and receive_audio tests its
\* loop condition.  Or __aenter__ raises, outside the try block.
SessionEnter(o) ==
    /\ hpc = "aenter"
    /\ IF o = "ok"
       THEN /\ session_context' = "entered"
            /\ CreateTask
            /\ SetProperties
            /\ LoopTest(client_state)
       ELSE EnterFails /\ UNCHANGED session
    /\ UNCHANGED <<variant, ws_sent, close_calls, task_error, out_frame, events_seen>>
    /\ UNCHANGED <<cancel_requested, aexit_calls, cancel_calls, end_session_error, wvars>>
    /\ UNCHANGED <<event_log, ovars>>

\* websocket.receive_json returns frame f and leaves client_state = cs.  The
\* loop of receive_audio ends without an exception only if a read returns
\* with the connection no longer CONNECTED; whether the transport ever does
\* so is not decided by this repository, so both states are allowed.
ReceiveFrame(f, cs) ==
    /\ hpc = "receive"
    /\ frames_received < MaxFrames
    /\ frames_received' = frames_received + 1
    /\ received' = Append(received, f)
    /\ client_state' = cs
    /\ LET eff == FrameEffect(f)
       IN  /\ warnings' = IF eff.warn THEN warnings + 1 ELSE warnings
           /\ CASE eff.do = "push" ->
                    /\ Goto("send_audio")
                    /\ audio_arg' = eff.audio
                    /\ UNCHANGED <<pump_end, pump_error>>
                [] eff.do = "skip" ->
                    /\ LoopTest(cs)
                    /\ UNCHANGED audio_arg
                [] eff.do = "raise" ->
                    /\ PumpRaises(eff.exc)
                    /\ UNCHANGED audio_arg
    /\ UNCHANGED <<variant, pushed, ws_sent, close_calls>>
    /\ UNCHANGED <<svars, dvars>>
    /\ UNCHANGED <<event_log, ovars>>
    /\ UNCHANGED session

\* websocket.receive_json raises: WebSocketDisconnect when the client went
\* away, another Exception, or the handler's own cancellation.
ReceiveRaises(e) ==
    /\ hpc = "receive"
    /\ client_state' = IF e = "WebSocketDisconnect" THEN "DISCONNECTED"
                       ELSE client_state
    /\ PumpRaises(e)
    /\ UNCHANGED <<variant, frames_received, audio_arg, pushed, ws_sent, close_calls>>
    /\ UNCHANGED <<received, warnings>>
    /\ UNCHANGED <<svars, dvars>>
    /\ UNCHANGED <<event_log, ovars>>
    /\ UNCHANGED session

\* The call CommunicationHandler.send_audio makes on the session.
send_audio(audio) == [audio |-> audio, commit |-> FALSE]

\* Mutant of Push: the pushes are not awaited one after the other, and a
\* later push reaches the session before the earlier ones.
PushOvertakes(audio) == <<send_audio(audio)>> \o pushed

\* The pushes the session has taken once `await self.send_audio(...)` has
\* returned: the pump awaits each push before it reads the next frame.
Push(audio) == Append(pushed, send_audio(audio))

\* session.send_audio(audio, commit=False) returns or raises.
SendAudio(o) ==
    /\ hpc = "send_audio"
    /\ audio_arg' = <<>>
    /\ IF o = "ok"
       THEN pushed' = Push(audio_arg) /\ LoopTest(client_state)
       ELSE UNCHANGED pushed /\ PumpRaises("SendAudioError")
    /\ UNCHANGED <<variant, client_state, frames_received, ws_sent, close_calls>>
    /\ UNCHANGED <<received, warnings>>
    /\ UNCHANGED <<svars, dvars>>
    /\ UNCHANGED <<event_log, ovars>>
    /\ UNCHANGED session

\* websocket.close(code=1011) in the except block returns or raises; either
\* way the finally block follows.
CloseError(o) ==
    /\ hpc = "close1011"
    /\ close_calls' = Append(close_calls,
                             [code |-> CLOSE_INTERNAL_ERROR, client |-> client_state])
    /\ IF o = "ok"
       THEN ws_sent' = Append(ws_sent, CloseFrame(CLOSE_INTERNAL_ERROR))
            /\ Finally("none")
       ELSE UNCHANGED ws_sent /\ Finally("Exception")
    /\ UNCHANGED <<variant, pump_end, pump_error>>
    /\ UNCHANGED <<wvars, svars, dvars>>
    /\ UNCHANGED <<event_log, ovars>>
    /\ UNCHANGED session

\* end_session resumes after __aexit__; back in the finally block the
\* normal close is awaited unless error_occurred.
SessionExit(o) ==
    /\ hpc = "aexit"
    /\ EndSessionAfterExit(o)
    /\ IF EndSessionError(o) # "none" THEN Return("Exception")
       ELSE IF ~error_occurred THEN Goto("close1000")
       ELSE Return(pending)
    /\ UNCHANGED <<variant, pump_end, pump_error, receive_task, ws_sent, close_calls>>
    /\ UNCHANGED tasks_created
    /\ UNCHANGED <<wvars, dvars>>
    /\ UNCHANGED <<event_log, ovars>>
    /\ UNCHANGED session

\* websocket.close(code=1000) returns or raises; the handler ends.
CloseNormal(o) ==
    /\ hpc = "close1000"
    /\ close_calls' = Append(close_calls,
                             [code |-> CLOSE_NORMAL, client |-> client_state])
    /\ IF o = "ok"
       THEN ws_sent' = Append(ws_sent, CloseFrame(CLOSE_NORMAL)) /\ Return(pending)
       ELSE UNCHANGED ws_sent /\ Return("Exception")
    /\ UNCHANGED <<variant, pump_end, pump_error>>
    /\ UNCHANGED <<wvars, svars, dvars>>
    /\ UNCHANGED <<event_log, ovars>>
    /\ UNCHANGED session

(***************************************************************************)
(* The dispatcher task process_realtime_messages.                          *)
(***************************************************************************)
Running == receive_task = "pending" /\ ~cancel_requested

\* The coroutine finishes: returned ("done"), raised err ("failed") or
\* was cancelled.
TaskEnds(how, err) ==
    /\ receive_task' = how
    /\ task_error' = err
    /\ dpc' = "end"
    /\ out_frame' = NoFrame

\* Mutant of OuterExcept: the exception is logged and swallowed, and the
\* coroutine returns.
OuterExceptSwallows(e) == TaskEnds("done", e)

\* except Exception as e: logger.error(...); raise e.  The exception e, raised
\* anywhere in the try block, leaves the coroutine.
OuterExcept(e) == TaskEnds("failed", e)

\* `async for event in self.session` yields ev and the chain dispatches it.
Dispatch(ev) ==
    /\ Running /\ dpc = "next"
    /\ events_seen < MaxEvents
    /\ events_seen' = events_seen + 1
    /\ LET eff == EventEffect(ev)
       IN  CASE eff.do = "send" ->
                    /\ dpc' = "send" /\ out_frame' = eff.frame
                    /\ UNCHANGED <<receive_task, task_error>>
             [] eff.do = "skip" ->
                    UNCHANGED <<dpc, out_frame, receive_task, task_error>>
             [] eff.do = "raise" ->
                    OuterExcept("AttributeError")
    /\ UNCHANGED <<hvars, wvars, ws_sent, close_calls, end_session_calls,
                   task_at_call>>
    /\ UNCHANGED <<session_context, cancel_requested, aexit_calls, cancel_calls>>
    /\ UNCHANGED <<tasks_created, end_session_error>>

\* The dispatcher consumes event ev.
NextEvent(ev) == Dispatch(ev) /\ UNCHANGED <<event_log, ovars, session>>

\* The same step, with the event recorded in the history variable event_log.
NextEventLogged(ev) ==
    /\ Dispatch(ev)
    /\ event_log' = Append(event_log, ev)
    /\ UNCHANGED <<ovars, session>>

\* The event stream is exhausted: the coroutine returns.
StreamEnds ==
    /\ Running /\ dpc = "next"
    /\ TaskEnds("done", "none")
    /\ UNCHANGED <<hvars, wvars, events_seen, ws_sent, close_calls, end_session_calls,
                   task_at_call>>
    /\ UNCHANGED <<session_context, cancel_requested, aexit_calls, cancel_calls>>
    /\ UNCHANGED <<tasks_created, end_session_error>>
    /\ UNCHANGED <<event_log, ovars>>
    /\ UNCHANGED session

\* Iterating the event stream raises: logged and re-raised.
StreamRaises ==
    /\ Running /\ dpc = "next"
    /\ OuterExcept("StreamError")
    /\ UNCHANGED <<hvars, wvars, events_seen, ws_sent, close_calls, end_session_calls,
                   task_at_call>>
    /\ UNCHANGED <<session_context, cancel_requested, aexit_calls, cancel_calls>>
    /\ UNCHANGED <<tasks_created, end_session_error>>
    /\ UNCHANGED <<event_log, ovars>>
    /\ UNCHANGED session

\* websocket.send_text of return_audio / interrupt_audio returns or raises.
SendText(o) ==
    /\ Running /\ dpc = "send"
    /\ IF o = "ok"
       THEN /\ ws_sent' = Append(ws_sent, out_frame)
            /\ dpc' = "next" /\ out_frame' = NoFrame
            /\ UNCHANGED <<receive_task, task_error>>
       ELSE /\ UNCHANGED ws_sent
            /\ OuterExcept("SendError")
    /\ UNCHANGED <<hvars, wvars, events_seen, close_calls, end_session_calls,
                   task_at_call>>
    /\ UNCHANGED <<session_context, cancel_requested, aexit_calls, cancel_calls>>
    /\ UNCHANGED <<tasks_created, end_session_error>>
    /\ UNCHANGED <<event_log, ovars>>
    /\ UNCHANGED session

\* Mutant of TaskCancelled: the CancelledError is caught and dropped by the
\* except clause, and the loop goes on.
TaskCancelledIntercepted ==
    /\ receive_task = "pending" /\ cancel_requested
    /\ cancel_requested' = FALSE
    /\ UNCHANGED <<hvars, wvars, dvars, ws_sent, close_calls, end_session_calls,
                   task_at_call>>
    /\ UNCHANGED <<session_context, receive_task, aexit_calls, cancel_calls>>
    /\ UNCHANGED <<tasks_created, end_session_error>>
    /\ UNCHANGED <<event_log, ovars>>
    /\ UNCHANGED session

\* The task runs next after cancel(): CancelledError is thrown into it at
\* its suspension point; `except Exception` does not take it.
TaskCancelled ==
    /\ receive_task = "pending" /\ cancel_requested
    /\ TaskEnds("cancelled", "CancelledError")
    /\ UNCHANGED <<hvars, wvars, events_seen, ws_sent, close_calls, end_session_calls,
                   task_at_call>>
    /\ UNCHANGED <<session_context, cancel_requested, aexit_calls, cancel_calls>>
    /\ UNCHANGED <<tasks_created, end_session_error>>
    /\ UNCHANGED <<event_log, ovars>>
    /\ UNCHANGED session

Next ==
    \/ AcceptApp
    \/ AcceptLegacy
    \/ \E o \in Outcomes : RunnerRun(o)
    \/ \E o \in Outcomes : SessionEnter(o)
    \/ \E f \in Frames, cs \in ConnStates : ReceiveFrame(f, cs)
    \/ \E e \in {"WebSocketDisconnect", "RuntimeError", "CancelledError"} :
            ReceiveRaises(e)
    \/ \E o \in Outcomes : SendAudio(o)
    \/ \E o \in Outcomes : CloseError(o)
    \/ \E o \in Outcomes : SessionExit(o)
    \/ \E o \in Outcomes : CloseNormal(o)
    \/ \E ev \in Events : NextEvent(ev)
    \/ StreamEnds
    \/ StreamRaises
    \/ \E o \in Outcomes : SendText(o)
    \/ TaskCancelled

Spec == Init /\ [][Next]_vars

(***************************************************************************)
(* Fairness.  An awaited call on the model session or on the websocket     *)
(* other than a read eventually returns or raises, and the event loop      *)
(* eventually runs a task that is ready.  Nothing makes the client send a  *)
(* frame or disconnect, and nothing makes the model emit an event: the     *)
(* reads (ReceiveFrame, ReceiveRaises, NextEvent, StreamEnds,              *)
(* StreamRaises) carry no fairness.                                        *)
(***************************************************************************)
HandlerProgress ==
    \/ AcceptApp
    \/ AcceptLegacy
    \/ \E o \in Outcomes : RunnerRun(o)
    \/ \E o \in Outcomes : SessionEnter(o)
    \/ \E o \in Outcomes : SendAudio(o)
    \/ \E o \in Outcomes : CloseError(o)
    \/ \E o \in Outcomes : SessionExit(o)
    \/ \E o \in Outcomes : CloseNormal(o)

TaskProgress ==
    \/ \E o \in Outcomes : SendText(o)
    \/ TaskCancelled

FairSpec ==
    Init /\ [][Next]_vars /\ WF_vars(HandlerProgress) /\ WF_vars(TaskProgress)

(***************************************************************************)
(* The bridge with the history of consumed model events recorded, and a    *)
(* client that sends no frame: the pump ends when receive_json raises.     *)
(***************************************************************************)
NextEvents ==
    \/ AcceptApp
    \/ AcceptLegacy
    \/ \E o \in Outcomes : RunnerRun(o)
    \/ \E o \in Outcomes : SessionEnter(o)
    \/ \E e \in {"WebSocketDisconnect", "RuntimeError", "CancelledError"} :
            ReceiveRaises(e)
    \/ \E o \in Outcomes : CloseError(o)
    \/ \E o \in Outcomes : SessionExit(o)
    \/ \E o \in Outcomes : CloseNormal(o)
    \/ \E ev \in Events : NextEventLogged(ev)
    \/ StreamEnds
    \/ StreamRaises
    \/ \E o \in Outcomes : SendText(o)
    \/ TaskCancelled

SpecEvents == Init /\ [][NextEvents]_vars

(***************************************************************************)
(* end_session called twice in succession on a bridge whose session was    *)
(* opened by init_model_realtime_session, the dispatcher task running      *)
(* beside the caller.                                                      *)
(***************************************************************************)
InitTwice ==
    /\ variant = "app"
    /\ hpc = "call1"
    /\ error_occurred = FALSE
    /\ pending = "none"
    /\ escaped = "none"
    /\ pump_end = "none"
    /\ pump_error = "none"
    /\ client_state = "CONNECTED"
    /\ frames_received = 0
    /\ audio_arg = <<>>
    /\ pushed = <<>>
    /\ received = <<>>
    /\ warnings = 0
    /\ session_context = "entered"
    /\ receive_task = "pending"
    /\ cancel_requested = FALSE
    /\ tasks_created = 1
    /\ end_session_error = "none"
    /\ task_error = "none"
    /\ dpc = "next"
    /\ out_frame = NoFrame
    /\ events_seen = 0
    /\ ws_sent = <<>>
    /\ close_calls = <<>>
    /\ end_session_calls = 0
    /\ task_at_call = "none"
    /\ aexit_calls = 0
    /\ cancel_calls = 0
    /\ session = "handle"
    /\ event_log = <<>>
    /\ OthersIdle

\* The caller invokes end_session, which suspends in __aexit__.
EndSessionCall ==
    /\ hpc \in {"call1", "call2"}
    /\ hpc' = IF hpc = "call1" THEN "aexit1" ELSE "aexit2"
    /\ end_session_calls' = end_session_calls + 1
    /\ task_at_call' = receive_task
    /\ UNCHANGED <<variant, error_occurred, pending, escaped, pump_end, pump_error>>
    /\ UNCHANGED <<wvars, svars, dvars, ws_sent, close_calls>>
    /\ UNCHANGED <<event_log, ovars>>
    /\ UNCHANGED session

\* end_session resumes after __aexit__ and returns to the caller, or the
\* exception of __aexit__ leaves end_session and the caller.
EndSessionResume(o) ==
    /\ hpc \in {"aexit1", "aexit2"}
    /\ EndSessionAfterExit(o)
    /\ IF EndSessionError(o) # "none" THEN hpc' = "done" /\ escaped' = "Exception"
       ELSE /\ hpc' = IF hpc = "aexit1" THEN "call2" ELSE "done"
            /\ UNCHANGED escaped
    /\ UNCHANGED <<variant, error_occurred, pending, pump_end, pump_error, end_session_calls,
                   task_at_call>>
    /\ UNCHANGED <<receive_task, tasks_created, wvars, dvars, ws_sent, close_calls>>
    /\ UNCHANGED <<event_log, ovars>>
    /\ UNCHANGED session

NextTwice ==
    \/ EndSessionCall
    \/ \E o \in Outcomes : EndSessionResume(o)
    \/ \E ev \in Events : NextEvent(ev)
    \/ StreamEnds
    \/ StreamRaises
    \/ \E o \in Outcomes : SendText(o)
    \/ TaskCancelled

SpecTwice == InitTwice /\ [][NextTwice]_vars

(***************************************************************************)
(* Properties.                                                             *)
(***************************************************************************)
IsClose(fr) == fr.Kind = "Close"

\* The close frames written to the client, in order.
CloseFrames == SelectSeq(ws_sent, IsClose)

\* The status codes of the websocket.close calls made, in order.
CloseCodes == [i \in 1..Len(close_calls) |-> close_calls[i].code]

\* An exception was raised somewhere during the call.
ExceptionOccurred ==
    pump_end = "raised" \/ escaped # "none" \/ receive_task = "failed"

\* C1: once the inbound pump has stopped (its loop saw the connection no
\* longer CONNECTED, or anything was raised inside it), end_session has been
\* invoked by the time the handler returns; the only point after the pump's
\* end at which it has not yet been invoked is the close(1011) of the except
\* block, from which the finally block follows.
EndSessionOnEveryPumpExit ==
    /\ (pump_end # "none" /\ hpc # "close1011") => end_session_calls >= 1
    /\ (pump_end # "none" /\ hpc = "done") => end_session_calls >= 1

\* C1 witness: the pump raised, close(1011) raised as well, and the handler
\* has returned with end_session invoked.
PumpRaisedAndSessionEnded ==
    /\ hpc = "done" /\ pump_end = "raised" /\ escaped = "Exception"
    /\ Len(close_calls) = 1 /\ CloseFrames = <<>>
    /\ end_session_calls = 1

\* C2: when iterating the model event stream raises in the dispatcher while
\* the call is active, the bridge eventually tears down, with end_session
\* invoked exactly once and the client closed with 1011 and not with 1000,
\* and it does so without the inbound pump having to end first (a run in
\* which the pump ends by itself is not the case the claim is about).
DispatcherFailureTearsDown ==
    (receive_task = "failed" /\ task_error = "StreamError"
        /\ hpc \in {"receive", "send_audio"})
    ~> \/ pump_end # "none"
       \/ /\ hpc = "done" /\ end_session_calls = 1
          /\ CloseFrames = <<CloseFrame(CLOSE_INTERNAL_ERROR)>>

\* C3: while the session is open and teardown has not begun, the dispatcher
\* task is running.
OpenSessionHasDispatcher ==
    (session_context = "entered" /\ end_session_calls = 0)
        => receive_task = "pending"

\* C4: once the session context has been exited, the dispatcher task has
\* been cancelled or has ended.
NoDispatcherAfterSessionExit ==
    session_context = "exited" => (receive_task # "pending" \/ cancel_requested)

\* C5: a call whose session open succeeded runs the exit of the session
\* context exactly once: never twice, and once by the time the handler
\* returns, on the normal path and on the error path alike.
SessionExitedExactlyOnce ==
    /\ aexit_calls <= 1
    /\ (hpc = "done" /\ receive_task # "none") => aexit_calls = 1

\* C5 witness: the handler returned through the error path with the session
\* exited once.
ErrorPathExitedOnce ==
    /\ hpc = "done" /\ pump_end = "raised" /\ error_occurred
    /\ aexit_calls = 1 /\ session_context = "exited"

\* C6: two calls of end_session in succession raise no error and perform the
\* session exit and the task cancellation at most once each.
EndSessionIdempotent ==
    (hpc = "done" /\ end_session_calls = 2)
        => (escaped = "none" /\ aexit_calls <= 1 /\ cancel_calls <= 1)

\* C7: the handler sends at most one close frame, so never both the 1011
\* and the 1000 frame.
AtMostOneCloseFrame ==
    /\ Len(close_calls) <= 1
    /\ Len(CloseFrames) <= 1

\* C7 witness: the handler returned through the except block, whose 1011
\* frame is the only close frame.
ErrorCloseSentAlone ==
    /\ hpc = "done" /\ error_occurred
    /\ CloseFrames = <<CloseFrame(CLOSE_INTERNAL_ERROR)>>

\* C8: when the handler has returned after the pump ended, the connection
\* was closed with 1011 if an exception occurred during the call and with
\* 1000 if none did (a close call counts even if the frame could not be
\* delivered).
CloseStatusMatchesEnding ==
    (hpc = "done" /\ pump_end # "none")
        => IF ExceptionOccurred
           THEN CloseCodes = <<CLOSE_INTERNAL_ERROR>>
           ELSE CloseCodes = <<CLOSE_NORMAL>>

\* C9: when the handler has finished, a close with 1000 or 1011 was made on
\* the accepted connection and no exception has escaped the handler.
EveryConnectionClosedCleanly ==
    hpc = "done" => (escaped = "none" /\ Len(CloseCodes) = 1)

\* C10: the 1011 close is attempted only on a connection that is still
\* open: when the pump ended because the client had disconnected, no close
\* is attempted, end_session still runs and no exception escapes.
ErrorCloseOnlyOnOpenConnection ==
    /\ pump_error = "WebSocketDisconnect" =>
            \A i \in 1..Len(close_calls) : close_calls[i].client = "CONNECTED"
    /\ (hpc = "done" /\ pump_error = "WebSocketDisconnect")
            => (end_session_calls = 1 /\ escaped = "none")

\* C11: at most one dispatcher task is ever created for a bridge, and the
\* step in which init_model_realtime_session returns successfully leaves the
\* session open with exactly one dispatcher task created and running.
ExactlyOneDispatcherTask ==
    /\ [](tasks_created <= 1)
    /\ [][(hpc = "aenter" /\ hpc' \notin {"aenter", "done"})
            => /\ session_context' = "entered"
               /\ tasks_created' = 1
               /\ receive_task' = "pending"]_vars

\* Witness of C11: init has returned, the pump waits for its first frame and
\* the one dispatcher task runs.
InitReturnedWithOneTask ==
    /\ hpc = "receive" /\ received = <<>>
    /\ session_context = "entered"
    /\ tasks_created = 1 /\ receive_task = "pending"

\* The open of the model session failed: the handler is over and the session
\* context was never entered.
OpenFailed ==
    variant = "app" /\ hpc = "done" /\ session_context \in {"none", "created"}

\* C12: when opening the model session failed (real_time_runner.run or
\* __aenter__ raised), no dispatcher task was created and none exists.
NoTaskAfterFailedOpen ==
    OpenFailed => (tasks_created = 0 /\ receive_task = "none" /\ dpc = "none")

\* Witness of C12: __aenter__ raised on the obtained context and no task was
\* created.
EnterRaisedWithoutTask ==
    /\ OpenFailed /\ session_context = "created" /\ escaped = "Exception"
    /\ tasks_created = 0

\* C13: when the handler has finished, every session context that was
\* obtained from real_time_runner.run has been exited, also when entering it
\* failed.
ObtainedSessionAlwaysExited ==
    (variant = "app" /\ hpc = "done" /\ session_context # "none")
        => aexit_calls >= 1

\* The one end_session call of the handler has finished, by returning or by
\* raising.
EndSessionFinished == end_session_calls >= 1 /\ hpc \notin {"aexit", "aexit1", "aexit2"}

\* C14: after end_session has finished, whether it returned or raised, the
\* session exit and the cancellation of the dispatcher task have both been
\* performed or neither has.
ExitAndCancelTogether ==
    EndSessionFinished => ((aexit_calls >= 1) <=> (cancel_calls >= 1))

\* C15: when end_session has returned, the dispatcher task has terminated:
\* it is done, not merely asked to cancel.
EndSessionWaitsForTask ==
    (EndSessionFinished /\ end_session_error = "none")
        => receive_task \in {"done", "failed", "cancelled"}

\* The dispatcher task had ended, normally or by raising, before end_session
\* was called.
TaskEndedBeforeCall == task_at_call \in {"done", "failed"}

DispatcherWriting == Running /\ dpc = "send"

\* The handler is suspended inside websocket.close: the write of the close
\* frame is in progress.
HandlerClosing == hpc \in {"close1011", "close1000"}

\* C17: writes to the client connection are serialized around the close:
\* the dispatcher has no frame send in progress while the handler's close is
\* in progress or after a close frame was sent, and nothing is written to
\* the connection after a close frame.
CloseWriteSerialized ==
    /\ DispatcherWriting => (~HandlerClosing /\ CloseFrames = <<>>)
    /\ \A i \in 1..Len(ws_sent) : IsClose(ws_sent[i]) => i = Len(ws_sent)

\* The last element of a non-empty sequence.
Last(s) == s[Len(s)]

\* A well-formed AudioData frame: its payload is the base64 text of some raw
\* bytes.
WellFormedAudio(f) ==
    /\ f.type = "AudioData" /\ f.audioData = "object" /\ f.data = "str"
    /\ \E b \in AudioPool : f.text = b64encode(b)

\* The raw bytes a well-formed AudioData frame was encoded from.
RawBytes(f) == CHOOSE b \in AudioPool : f.text = b64encode(b)

\* Calls of send_audio the pump has made: completed, in progress, or raised.
PushCalls ==
    Len(pushed) + (IF hpc = "send_audio" THEN 1 ELSE 0)
                + (IF pump_error = "SendAudioError" THEN 1 ELSE 0)

\* Exceptions raised by the body of the pump's match statement.
DecodeErrors == {"TypeError", "AttributeError", "binascii.Error", "ValueError"}

\* Exceptions raised by websocket.receive_json.
ReadErrors == {"WebSocketDisconnect", "RuntimeError", "CancelledError"}

\* C18: the pump makes one audio push per well-formed AudioData frame read,
\* with commit=False, and the bytes pushed for the frame are the raw bytes
\* its payload was encoded from.
ValidAudioPushedOnce ==
    /\ PushCalls = Len(SelectSeq(received, WellFormedAudio))
    /\ \A i \in 1..Len(pushed) : pushed[i].commit = FALSE
    /\ (received # <<>> /\ WellFormedAudio(Last(received)))
        => \/ hpc = "send_audio" /\ audio_arg = RawBytes(Last(received))
           \/ hpc # "send_audio" /\ pump_error = "SendAudioError"
           \/ /\ hpc # "send_audio" /\ pump_error # "SendAudioError"
              /\ pushed # <<>>
              /\ Last(pushed).audio = RawBytes(Last(received))

\* Witness of C18: two well-formed frames were read and both pushes were
\* completed.
TwoFramesPushed ==
    /\ Len(received) = 2 /\ \A i \in 1..2 : WellFormedAudio(received[i])
    /\ Len(pushed) = 2 /\ hpc = "receive"

\* An AudioData frame with no audioData object, no data field, or a
\* zero-length data.
EmptyOrMissing(f) ==
    /\ f.type = "AudioData"
    /\ \/ f.audioData = "absent"
       \/ f.audioData = "object" /\ f.data = "absent"
       \/ f.audioData = "object" /\ f.data = "str" /\ f.text = <<>>

\* C19: an AudioData frame whose payload is empty or missing causes no audio
\* push and is skipped: it does not make the pump raise.
EmptyPayloadSkipped ==
    (received # <<>> /\ EmptyOrMissing(Last(received)))
        => (hpc # "send_audio" /\ pump_error \notin DecodeErrors)

\* A frame whose tag is not AudioData: another tag or none.
Unrecognized(f) == f.type # "AudioData"

\* C20: a frame whose tag is not recognized causes one warning and no audio
\* push, and does not make the pump raise: after it the pump reads on, unless
\* the connection is no longer connected or the next read raises.
UnknownTagSkipped ==
    /\ warnings = Len(SelectSeq(received, Unrecognized))
    /\ PushCalls <= Len(received) - Len(SelectSeq(received, Unrecognized))
    /\ (received # <<>> /\ Unrecognized(Last(received)))
        => /\ hpc # "send_audio"
           /\ pump_end = "none" => hpc = "receive"
           /\ pump_end = "returned" => client_state # "CONNECTED"
           /\ pump_end = "raised" => pump_error \in ReadErrors

\* Witness of C20: a StopAudio frame was warned about and skipped, and the
\* pump went on to push the audio of the frame that followed.
PushAfterUnknownTag ==
    /\ Len(received) = 2 /\ received[1].type = "StopAudio"
    /\ WellFormedAudio(received[2])
    /\ warnings = 1 /\ hpc = "send_audio" /\ pushed = <<>>

\* An AudioData frame with a garbled payload: audioData is null, or data is
\* text that is not the base64 encoding of any bytes.
Garbled(f) ==
    /\ f.type = "AudioData"
    /\ \/ f.audioData = "null"
       \/ /\ f.audioData = "object" /\ f.data = "str" /\ f.text # <<>>
          /\ \A b \in AudioPool : f.text # b64encode(b)

\* C21: a frame with a garbled audio payload does not end the pump: after it
\* no audio push is in progress and the pump has not raised an exception of
\* the frame's content.
GarbledFrameSkipped ==
    (received # <<>> /\ Garbled(Last(received)))
        => (hpc # "send_audio" /\ pump_error \notin DecodeErrors)

\* The audio of the send_audio calls made and accepted or still in progress,
\* in call order.
PushedAudio ==
    [i \in 1..Len(pushed) |-> pushed[i].audio]
        \o (IF hpc = "send_audio" THEN <<audio_arg>> ELSE <<>>)

\* The raw bytes of the well-formed AudioData frames read, in the order read.
ExpectedAudio ==
    LET valid == SelectSeq(received, WellFormedAudio)
    IN  [i \in 1..Len(valid) |-> RawBytes(valid[i])]

\* C22: the audio pushed to the model session is, in order, the audio of the
\* AudioData frames with a non-empty payload that were read: nothing is
\* reordered, merged or duplicated (the push of the last such frame is
\* missing only if that send_audio call raised).
PushesInReceiveOrder ==
    IF pump_error = "SendAudioError"
    THEN PushedAudio = SubSeq(ExpectedAudio, 1, Len(ExpectedAudio) - 1)
    ELSE PushedAudio = ExpectedAudio

\* Witness of C22: two frames with different audio were read and both
\* pushes were accepted.
TwoDifferentFramesPushed ==
    /\ Len(received) = 2 /\ received[1] # received[2]
    /\ \A i \in 1..2 : WellFormedAudio(received[i])
    /\ Len(pushed) = 2 /\ pushed[1].audio # pushed[2].audio

\* The fixed dispatch table: the kind of client frame an event yields, or
\* "none".
ExpectedKind(ev) ==
    IF ev.type = "audio" /\ ev.arg = "bytes" /\ ev.audio # <<>> THEN "AudioData"
    ELSE IF ev.type = "audio_interrupted" THEN "StopAudio"
    ELSE "none"

\* The event yields a client frame.
Yields(ev) == ExpectedKind(ev) # "none"

\* The kinds of the frames the consumed events yield, in event order.
ExpectedKinds ==
    LET sel == SelectSeq(event_log, Yields)
    IN  [i \in 1..Len(sel) |-> ExpectedKind(sel[i])]

NotClose(fr) == ~IsClose(fr)

\* The kinds of the frames the dispatcher has written to the client, in
\* order.
SentKinds ==
    LET sel == SelectSeq(ws_sent, NotClose)
    IN  [i \in 1..Len(sel) |-> sel[i].Kind]

\* C23: the frames the dispatcher sends are those of the dispatch table, in
\* the order of the events: one AudioData frame per audio event with a
\* non-empty payload, one StopAudio frame per audio_interrupted event, no
\* frame for any other event (the frame of the last event is missing only
\* if its send raised or the task was cancelled during it).
EventsTranslatedInOrder ==
    IF dpc = "send"
    THEN SentKinds \o <<out_frame.Kind>> = ExpectedKinds
    ELSE \/ SentKinds = ExpectedKinds
         \/ /\ task_error \in {"SendError", "CancelledError"}
            /\ SentKinds = SubSeq(ExpectedKinds, 1, Len(ExpectedKinds) - 1)

\* Witness of C23: an audio_interrupted event and then an audio event were
\* consumed and their two frames were sent in that order.
StopThenAudioSent ==
    /\ Len(event_log) = 2
    /\ event_log[1].type = "audio_interrupted" /\ event_log[2].type = "audio"
    /\ SentKinds = <<"StopAudio", "AudioData">>

\* C24: an error event does not end the dispatcher, which goes on to the
\* next event, and while the pump runs the session stays open and no close
\* is made, whatever error events were consumed.
ErrorEventKeepsBridgeOpen ==
    /\ (event_log # <<>> /\ Last(event_log).type = "error")
        => /\ task_error \in {"none", "StreamError", "CancelledError"}
           /\ Running => dpc = "next"
    /\ ((\E i \in 1..Len(event_log) : event_log[i].type = "error")
            /\ pump_end = "none")
        => /\ session_context = "entered"
           /\ close_calls = <<>> /\ end_session_calls = 0

\* Witness of C24: after an error event the dispatcher consumed an audio
\* event and is sending its frame, the session open and no close made.
AudioAfterErrorEvent ==
    /\ Len(event_log) = 2
    /\ event_log[1].type = "error" /\ event_log[2].type = "audio"
    /\ Running /\ dpc = "send"
    /\ session_context = "entered" /\ close_calls = <<>>

\* C25: an exception raised by the iteration of the event stream leaves
\* process_realtime_messages: the task ends failed, not done.
StreamErrorFailsTask ==
    task_error = "StreamError" => (receive_task = "failed" /\ dpc = "end")

\* Witness of C25: the stream raised after an event had been consumed.
StreamRaisedAfterEvent ==
    /\ task_error = "StreamError" /\ receive_task = "failed"
    /\ events_seen >= 1

\* C26: a failure in the translation of one event does not end the
\* dispatcher: a tool_start event without tool data does not fail the task,
\* and neither does a failed send of one frame.
PerEventFailureRecovered ==
    /\ (event_log # <<>> /\ Last(event_log).type = "tool_start"
            /\ Last(event_log).arg = "none")
        => receive_task # "failed"
    /\ task_error # "SendError"

(***************************************************************************)
(* The callback endpoint post_callback_context and the coroutine           *)
(* process_callback_event.  An event is its type tag and whether its       *)
(* "data" is an object or JSON null.                                       *)
(***************************************************************************)
CallbackEvent(t, d) == [type |-> t, data |-> d]

CallbackEvents ==
    {CallbackEvent(t, "object") :
        t \in {"CallConnected", "MediaStreamingStarted", "MediaStreamingFailed",
               "CallDisconnected", "Bogus", "absent"}}
    \cup {CallbackEvent("Bogus", "null")}

\* The batches of callback events of one request.
Batches == UNION {[1..n -> CallbackEvents] : n \in 0..MaxBatch}

\* What the loop body of process_callback_event does with one event: the
\* logger.info before the match reads event_data.get(...), which raises on
\* a null data; CallConnected awaits get_call_properties; the other known
\* types log; `case _` warns.
CallbackEffect(ev) ==
    IF ev.data = "null" THEN [do |-> "raise", exc |-> "AttributeError"]
    ELSE IF ev.type = "CallConnected" THEN [do |-> "props", exc |-> "none"]
    ELSE IF ev.type \in {"MediaStreamingStarted", "MediaStreamingStopped",
                         "MediaStreamingFailed", "CallDisconnected"}
    THEN [do |-> "log", exc |-> "none"]
    ELSE [do |-> "warn", exc |-> "none"]

InitCallback ==
    /\ BridgeInit /\ variant = "app"
    /\ event_log = <<>>
    /\ cb_events \in Batches
    /\ cb_pc = "idle"
    /\ cb_i = 1
    /\ cb_visited = <<>>
    /\ cb_warnings = 0
    /\ cb_error = "none"
    /\ cb_awaited = FALSE
    /\ AgentNew /\ event_handler = FALSE /\ streaming = FALSE
    /\ RetryIdle
    /\ IncomingIdle

\* post_callback_context: `process_callback_event(...)` is called without
\* await, which builds the coroutine and runs none of it; the endpoint
\* returns None.
PostCallback ==
    /\ cb_pc = "idle"
    /\ cb_pc' = "done"
    /\ cb_awaited' = FALSE
    /\ UNCHANGED <<cb_events, cb_i, cb_visited, cb_warnings, cb_error>>
    /\ UNCHANGED noncb

\* A caller awaits process_callback_event(...): the coroutine starts.
AwaitCallback ==
    /\ cb_pc = "idle"
    /\ cb_pc' = "loop"
    /\ cb_awaited' = TRUE
    /\ UNCHANGED <<cb_events, cb_i, cb_visited, cb_warnings, cb_error>>
    /\ UNCHANGED noncb

\* `for event in events`: the body runs for the next event, or the loop is
\* over and the coroutine returns None.
CallbackStep ==
    /\ cb_pc = "loop"
    /\ IF cb_i > Len(cb_events)
       THEN /\ cb_pc' = "done"
            /\ UNCHANGED <<cb_i, cb_visited, cb_warnings, cb_error>>
       ELSE LET eff == CallbackEffect(cb_events[cb_i])
            IN  /\ cb_visited' = Append(cb_visited, cb_events[cb_i])
                /\ cb_warnings' = IF eff.do = "warn" THEN cb_warnings + 1
                                  ELSE cb_warnings
                /\ CASE eff.do = "raise" ->
                            cb_pc' = "done" /\ cb_error' = eff.exc /\ UNCHANGED cb_i
                     [] eff.do = "props" ->
                            cb_pc' = "props" /\ UNCHANGED <<cb_i, cb_error>>
                     [] OTHER ->
                            cb_i' = cb_i + 1 /\ UNCHANGED <<cb_pc, cb_error>>
    /\ UNCHANGED <<cb_events, cb_awaited>>
    /\ UNCHANGED noncb

\* `await call_connection.get_call_properties()` returns or raises.
CallProperties(o) ==
    /\ cb_pc = "props"
    /\ IF o = "ok"
       THEN cb_pc' = "loop" /\ cb_i' = cb_i + 1 /\ UNCHANGED cb_error
       ELSE cb_pc' = "done" /\ cb_error' = "HttpResponseError" /\ UNCHANGED cb_i
    /\ UNCHANGED <<cb_events, cb_visited, cb_warnings, cb_awaited>>
    /\ UNCHANGED noncb

NextCallback ==
    \/ PostCallback
    \/ AwaitCallback
    \/ CallbackStep
    \/ \E o \in Outcomes : CallProperties(o)

SpecCallback == InitCallback /\ [][NextCallback]_vars

\* A callback event whose type is none of those process_callback_event
\* knows.
UnknownCallback(ev) ==
    ev.type \notin {"CallConnected", "MediaStreamingStarted", "MediaStreamingStopped",
                    "MediaStreamingFailed", "CallDisconnected"}

\* C27: when a callback request has completed, every event of the batch was
\* visited, in order, each unrecognized event produced one warning, and no
\* error was raised.
CallbackEventsAllVisited ==
    cb_pc = "done"
        => /\ cb_visited = cb_events
           /\ cb_warnings = Len(SelectSeq(cb_events, UnknownCallback))
           /\ cb_error = "none"

\* ---------------------------------------------------------------------
\* RealTimeAgent: initialize, send_message and set_system_prompt.  Each
\* action runs from one await of the method to the next.
\* ---------------------------------------------------------------------

Contents == {"a", "b"}
Prompts == {"p", "q"}
\* The message types a caller passes to send_message.
SendTypes == {"USER", "SYSTEM"}

\* The message of the response the provider generates.
ResponseMessage == Message("ASSISTANT", "r")

Notification(k, a) == [kind |-> k, arg |-> a]
Notify(k, a) == notified' = Append(notified, Notification(k, a))

Call(op, arg, e) == [op |-> op, arg |-> arg, raised |-> e]

\* The method returns (e = "none") or raises e to its caller.
Finish(op, arg, e) ==
    /\ apc' = "idle"
    /\ a_exc' = "none"
    /\ a_arg' = NoMessage
    /\ calls' = Append(calls, Call(op, arg, e))

\* The agent and the event handler were built; streaming is a field of the
\* configuration the agent was given.
InitAgent ==
    /\ BridgeInit
    /\ variant = "app"
    /\ event_log = <<>>
    /\ CallbackIdle
    /\ AgentNew
    /\ event_handler \in BOOLEAN
    /\ streaming \in BOOLEAN
    /\ RetryIdle
    /\ IncomingIdle

\* initialize() is called and suspends in provider.initialize().
Initialize ==
    /\ apc = "idle"
    /\ Len(calls) < MaxCalls
    /\ apc' = "provider_initialize"
    /\ hist_at_call' = conversation_history
    /\ UNCHANGED <<status, conversation_history, event_handler, streaming,
                   a_arg, a_exc, a_provider, notified, calls>>
    /\ notified_at_call' = notified
    /\ UNCHANGED <<got_history, generate_calls, gen_pc, gen_chunk, accumulated_content>>
    /\ UNCHANGED nonagent

InitializeExceptKeepsStatus(e) ==
    /\ UNCHANGED status
    /\ IF event_handler
       THEN /\ apc' = "init_on_error"
            /\ a_exc' = e
            /\ Notify("error", e)
            /\ UNCHANGED <<a_arg, calls>>
       ELSE /\ Finish("initialize", NoMessage, e)
            /\ UNCHANGED notified

\* The except block of initialize: the status becomes ERROR, the handler's
\* on_error is awaited if there is a handler, then the exception is re-raised.
InitializeExcept(e) ==
    /\ status' = "ERROR"
    /\ IF event_handler
       THEN /\ apc' = "init_on_error"
            /\ a_exc' = e
            /\ Notify("error", e)
            /\ UNCHANGED <<a_arg, calls>>
       ELSE /\ Finish("initialize", NoMessage, e)
            /\ UNCHANGED notified

\* provider.initialize() returns or raises.
ProviderInitialize(o) ==
    /\ apc = "provider_initialize"
    /\ a_provider' = o
    /\ IF o = "ok"
       THEN /\ status' = "CONNECTED"
            /\ IF event_handler
               THEN /\ apc' = "init_on_connection_status"
                    /\ Notify("status", "CONNECTED")
                    /\ UNCHANGED <<a_arg, a_exc, calls>>
               ELSE /\ Finish("initialize", NoMessage, "none")
                    /\ UNCHANGED notified
       ELSE InitializeExcept("ProviderError")
    /\ UNCHANGED <<conversation_history, event_handler, streaming, hist_at_call>>
    /\ UNCHANGED xvars
    /\ UNCHANGED nonagent

\* The handler's on_connection_status returns or raises; its await is inside
\* the try block of initialize.
InitOnConnectionStatus(o) ==
    /\ apc = "init_on_connection_status"
    /\ IF o = "ok"
       THEN /\ Finish("initialize", NoMessage, "none")
            /\ UNCHANGED <<status, notified>>
       ELSE InitializeExcept("HandlerError")
    /\ UNCHANGED <<conversation_history, event_handler, streaming, a_provider,
                   hist_at_call>>
    /\ UNCHANGED xvars
    /\ UNCHANGED nonagent

\* The handler's on_error returns, and initialize re-raises the exception it
\* caught, or on_error raises itself.
InitOnError(o) ==
    /\ apc = "init_on_error"
    /\ Finish("initialize", NoMessage, IF o = "ok" THEN a_exc ELSE "OnErrorError")
    /\ UNCHANGED <<status, conversation_history, event_handler, streaming,
                   a_provider, notified, hist_at_call>>
    /\ UNCHANGED xvars
    /\ UNCHANGED nonagent

NotDisconnected(st) == st = "DISCONNECTED"

\* The test that opens send_message: self._status != ConnectionStatus.CONNECTED
NotConnected(st) == st # "CONNECTED"

\* send_message(content, message_type) is called: it raises RuntimeError
\* unless the agent is connected, else appends the message and goes on to
\* the handler's on_message or to provider.generate_response().
SendMessage(c, t) ==
    /\ apc = "idle"
    /\ Len(calls) < MaxCalls
    /\ hist_at_call' = conversation_history
    /\ IF NotConnected(status)
       THEN /\ Finish("send_message", Message(t, c), "RuntimeError")
            /\ UNCHANGED <<conversation_history, notified>>
       ELSE /\ conversation_history' = Append(conversation_history, Message(t, c))
            /\ a_arg' = Message(t, c)
            /\ UNCHANGED <<a_exc, calls>>
            /\ IF event_handler
               THEN /\ apc' = "send_on_message"
                    /\ Notify("message", Message(t, c))
               ELSE /\ apc' = "generate_response"
                    /\ UNCHANGED notified
    /\ UNCHANGED <<status, event_handler, streaming, a_provider>>
    /\ notified_at_call' = notified
    /\ UNCHANGED <<got_history, generate_calls, gen_pc, gen_chunk, accumulated_content>>
    /\ UNCHANGED nonagent

\* on_message for the sent message returns or raises; this await is outside
\* the try block, so its exception leaves send_message as it is.
SendOnMessage(o) ==
    /\ apc = "send_on_message"
    /\ IF o = "ok"
       THEN /\ apc' = "generate_response"
            /\ UNCHANGED <<a_arg, a_exc, calls>>
       ELSE Finish("send_message", a_arg, "HandlerError")
    /\ UNCHANGED <<status, conversation_history, event_handler, streaming,
                   a_provider, notified, hist_at_call>>
    /\ UNCHANGED xvars
    /\ UNCHANGED nonagent

\* The except block of send_message: on_error is awaited if there is a
\* handler, then the exception is re-raised.
SendExcept(e) ==
    IF event_handler
    THEN /\ apc' = "send_on_error"
         /\ a_exc' = e
         /\ Notify("error", e)
         /\ UNCHANGED <<a_arg, calls>>
    ELSE /\ Finish("send_message", a_arg, e)
         /\ UNCHANGED notified

HandleSingleResponseDropped(h) == h

\* _handle_single_response appends the response's message to the history.
HandleSingleResponse(h) == Append(h, ResponseMessage)

\* provider.generate_response() returns or raises.  With streaming the
\* method returns the generator, which has not run yet.
GenerateResponse(o) ==
    /\ apc = "generate_response"
    /\ IF o = "raise"
       THEN /\ SendExcept("ProviderError")
            /\ UNCHANGED conversation_history
       ELSE IF streaming
       THEN /\ Finish("send_message", a_arg, "none")
            /\ UNCHANGED <<conversation_history, notified>>
       ELSE /\ conversation_history' = HandleSingleResponse(conversation_history)
            /\ IF event_handler
               THEN /\ apc' = "response_on_message"
                    /\ Notify("message", ResponseMessage)
                    /\ UNCHANGED <<a_arg, a_exc, calls>>
               ELSE /\ Finish("send_message", a_arg, "none")
                    /\ UNCHANGED notified
    /\ UNCHANGED <<status, event_handler, streaming, a_provider, hist_at_call>>
    /\ generate_calls' = generate_calls + 1
    /\ IF o = "ok" /\ streaming
       THEN /\ gen_pc' = "created"
            /\ gen_chunk' = NoChunk
            /\ accumulated_content' = ""
       ELSE UNCHANGED <<gen_pc, gen_chunk, accumulated_content>>
    /\ UNCHANGED <<notified_at_call, got_history>>
    /\ UNCHANGED nonagent

\* on_message for the response returns or raises, inside the try block.
ResponseOnMessage(o) ==
    /\ apc = "response_on_message"
    /\ IF o = "ok"
       THEN /\ Finish("send_message", a_arg, "none")
            /\ UNCHANGED notified
       ELSE SendExcept("HandlerError")
    /\ UNCHANGED <<status, conversation_history, event_handler, streaming,
                   a_provider, hist_at_call>>
    /\ UNCHANGED xvars
    /\ UNCHANGED nonagent

\* on_error returns, and send_message re-raises what it caught, or on_error
\* raises itself.
SendOnError(o) ==
    /\ apc = "send_on_error"
    /\ Finish("send_message", a_arg, IF o = "ok" THEN a_exc ELSE "OnErrorError")
    /\ UNCHANGED <<status, conversation_history, event_handler, streaming,
                   a_provider, notified, hist_at_call>>
    /\ UNCHANGED xvars
    /\ UNCHANGED nonagent

set_system_prompt_inserts(h, p) == <<Message("SYSTEM", p)>> \o h

\* The history set_system_prompt(p) leaves: a SYSTEM message is put in
\* front unless the first message is one, whose content is then replaced.
set_system_prompt(h, p) ==
    IF h = <<>> \/ h[1].type # "SYSTEM"
    THEN <<Message("SYSTEM", p)>> \o h
    ELSE <<Message("SYSTEM", p)>> \o Tail(h)

\* set_system_prompt(p) is called; the method has no await.
SetSystemPrompt(p) ==
    /\ apc = "idle"
    /\ Len(calls) < MaxCalls
    /\ hist_at_call' = conversation_history
    /\ conversation_history' = set_system_prompt(conversation_history, p)
    /\ Finish("set_system_prompt", Message("SYSTEM", p), "none")
    /\ UNCHANGED <<status, event_handler, streaming, a_provider, notified>>
    /\ notified_at_call' = notified
    /\ UNCHANGED <<got_history, generate_calls, gen_pc, gen_chunk, accumulated_content>>
    /\ UNCHANGED nonagent

NextAgent ==
    \/ Initialize
    \/ \E o \in Outcomes : ProviderInitialize(o)
    \/ \E o \in Outcomes : InitOnConnectionStatus(o)
    \/ \E o \in Outcomes : InitOnError(o)
    \/ \E c \in Contents, t \in SendTypes : SendMessage(c, t)
    \/ \E o \in Outcomes : SendOnMessage(o)
    \/ \E o \in Outcomes : GenerateResponse(o)
    \/ \E o \in Outcomes : ResponseOnMessage(o)
    \/ \E o \in Outcomes : SendOnError(o)
    \/ \E p \in Prompts : SetSystemPrompt(p)

SpecAgent == InitAgent /\ [][NextAgent]_vars

\* The last agent call that finished.
LastCall == calls[Len(calls)]
\* The agent is between calls and the last call was op.
Returned(op) == apc = "idle" /\ calls # <<>> /\ LastCall.op = op

\* The handler was called with kind k and argument a.
Notified(k, a) ==
    \E i \in 1..Len(notified) : notified[i].kind = k /\ notified[i].arg = a

\* C28: when initialize has finished, the status follows the outcome of
\* provider.initialize(): after a success the status is CONNECTED and the
\* event handler was notified of CONNECTED; after a failure the status is
\* ERROR, on_error was called with the provider's exception and that
\* exception is what the caller gets.
InitializeFollowsProvider ==
    Returned("initialize") =>
        IF a_provider = "ok"
        THEN /\ status = "CONNECTED"
             /\ event_handler => Notified("status", "CONNECTED")
        ELSE /\ status = "ERROR"
             /\ event_handler => Notified("error", "ProviderError")
             /\ LastCall.raised = "ProviderError"

IsSend(c) == c.op = "send_message"
\* Every call so far was initialize or a send_message of a USER message
\* that returned.
OnlySuccessfulUserSends ==
    \A i \in 1..Len(calls) :
        \/ calls[i].op = "initialize"
        \/ /\ IsSend(calls[i])
           /\ calls[i].raised = "none"
           /\ calls[i].arg.type = "USER"

\* C29: with streaming disabled, a send_message that returned has appended
\* to the history the sent message and then the provider's response, and
\* nothing else; after n such calls sending USER messages on an empty
\* history, the history has 2n entries alternating USER, ASSISTANT.
SendAppendsMessageAndResponse ==
    /\ (~streaming /\ Returned("send_message") /\ LastCall.raised = "none") =>
           /\ conversation_history = hist_at_call \o <<LastCall.arg, ResponseMessage>>
           /\ ResponseMessage.type = "ASSISTANT"
    /\ (~streaming /\ apc = "idle" /\ OnlySuccessfulUserSends) =>
           /\ Len(conversation_history) = 2 * Len(SelectSeq(calls, IsSend))
           /\ \A i \in 1..Len(conversation_history) :
                  conversation_history[i].type =
                      IF i % 2 = 1 THEN "USER" ELSE "ASSISTANT"

\* Two USER messages were sent and answered on an empty history.
TwoSendsAnswered ==
    /\ ~streaming
    /\ apc = "idle"
    /\ OnlySuccessfulUserSends
    /\ Len(SelectSeq(calls, IsSend)) = 2
    /\ Len(conversation_history) = 4
    /\ conversation_history[1] # conversation_history[3]

IsSystem(m) == m.type = "SYSTEM"
NotSystem(m) == m.type # "SYSTEM"

BehindSystemPrompt(h) == IF h # <<>> /\ IsSystem(h[1]) THEN Tail(h) ELSE h

clear_keeps_prompt(h) ==
    IF h # <<>> /\ h[1].type = "SYSTEM" THEN <<h[1]>> ELSE <<>>

\* conversation_history.clear()
clear(h) == <<>>

\* clear_conversation(): the history is emptied; the method has no await.
ClearConversation ==
    /\ apc = "idle"
    /\ Len(calls) < MaxCalls
    /\ hist_at_call' = conversation_history
    /\ notified_at_call' = notified
    /\ conversation_history' = clear(conversation_history)
    /\ Finish("clear_conversation", NoMessage, "none")
    /\ UNCHANGED <<status, event_handler, streaming, a_provider, notified>>
    /\ UNCHANGED <<got_history, generate_calls, gen_pc, gen_chunk, accumulated_content>>
    /\ UNCHANGED nonagent

\* get_conversation_history() returns a copy of the history.
GetConversationHistory ==
    /\ apc = "idle"
    /\ Len(calls) < MaxCalls
    /\ hist_at_call' = conversation_history
    /\ notified_at_call' = notified
    /\ got_history' = conversation_history
    /\ Finish("get_conversation_history", NoMessage, "none")
    /\ UNCHANGED <<status, conversation_history, event_handler, streaming,
                   a_provider, notified>>
    /\ UNCHANGED <<generate_calls, gen_pc, gen_chunk, accumulated_content>>
    /\ UNCHANGED nonagent

\* close() is called and suspends in provider.close().
Close ==
    /\ apc = "idle"
    /\ Len(calls) < MaxCalls
    /\ apc' = "provider_close"
    /\ hist_at_call' = conversation_history
    /\ notified_at_call' = notified
    /\ UNCHANGED <<status, conversation_history, event_handler, streaming,
                   a_arg, a_exc, a_provider, notified, calls>>
    /\ UNCHANGED <<got_history, generate_calls, gen_pc, gen_chunk, accumulated_content>>
    /\ UNCHANGED nonagent

\* The except block of close: the error is logged and re-raised.
CloseExcept(e) ==
    /\ Finish("close", NoMessage, e)
    /\ UNCHANGED <<status, notified>>

\* provider.close() returns or raises.  self.session is None in every agent
\* (nothing assigns it), so session.stop() is not called.
ProviderClose(o) ==
    /\ apc = "provider_close"
    /\ IF o = "ok"
       THEN /\ status' = "DISCONNECTED"
            /\ IF event_handler
               THEN /\ apc' = "close_on_connection_status"
                    /\ Notify("status", "DISCONNECTED")
                    /\ UNCHANGED <<a_arg, a_exc, calls>>
               ELSE /\ Finish("close", NoMessage, "none")
                    /\ UNCHANGED notified
       ELSE CloseExcept("ProviderError")
    /\ UNCHANGED <<conversation_history, event_handler, streaming, a_provider,
                   hist_at_call>>
    /\ UNCHANGED xvars
    /\ UNCHANGED nonagent

\* on_connection_status(DISCONNECTED) returns or raises, inside the try block.
CloseOnConnectionStatus(o) ==
    /\ apc = "close_on_connection_status"
    /\ Finish("close", NoMessage, IF o = "ok" THEN "none" ELSE "HandlerError")
    /\ UNCHANGED <<status, conversation_history, event_handler, streaming,
                   a_provider, notified, hist_at_call>>
    /\ UNCHANGED xvars
    /\ UNCHANGED nonagent

\* The content of the next chunk of the provider's stream, which has at most
\* two chunks, and accumulated_content += chunk.message.content.
NextContent(acc) == IF acc = "" THEN "x" ELSE "y"
Concat(acc, c) ==
    IF acc = "" THEN c ELSE IF acc = "x" /\ c = "y" THEN "xy" ELSE "other"
\* What the provider's stream does when the generator asks for a chunk.
StreamOutcomes(acc, last) ==
    IF last.is_final \/ acc \notin {"", "x"}
    THEN {"end"}
    ELSE {"chunk", "final_chunk", "end", "raise"}

\* The statements after `yield chunk`: a final chunk makes the generator
\* append the ASSISTANT message with the accumulated content.
AppendFinal(h, chunk, acc) ==
    IF chunk.is_final THEN Append(h, Message("ASSISTANT", acc)) ELSE h

\* The consumer asks the generator for the next chunk: the generator runs
\* from where it is (its start, or the yield it is suspended at) to the
\* await of on_message, to the next yield, or to its end.
GenResume(so) ==
    /\ apc = "idle"
    /\ gen_pc \in {"created", "yielded"}
    /\ so \in StreamOutcomes(accumulated_content, gen_chunk)
    /\ conversation_history' =
           IF gen_pc = "yielded"
           THEN AppendFinal(conversation_history, gen_chunk, accumulated_content)
           ELSE conversation_history
    /\ IF so \in {"chunk", "final_chunk"}
       THEN LET c == NextContent(accumulated_content)
                chunk == Chunk(c, so = "final_chunk")
            IN  /\ accumulated_content' = Concat(accumulated_content, c)
                /\ gen_chunk' = chunk
                /\ IF event_handler
                   THEN /\ gen_pc' = "on_message"
                        /\ Notify("message", Message("ASSISTANT", c))
                   ELSE /\ gen_pc' = "yielded"
                        /\ UNCHANGED notified
       ELSE /\ gen_pc' = IF so = "end" THEN "done" ELSE "failed"
            /\ UNCHANGED <<gen_chunk, accumulated_content, notified>>
    /\ UNCHANGED <<status, event_handler, streaming, apc, a_arg, a_exc,
                   a_provider, calls, hist_at_call>>
    /\ UNCHANGED <<notified_at_call, got_history, generate_calls>>
    /\ UNCHANGED nonagent

\* on_message for a chunk returns, and the chunk is yielded to the consumer,
\* or raises, and the exception ends the generator.
GenOnMessage(o) ==
    /\ gen_pc = "on_message"
    /\ gen_pc' = IF o = "ok" THEN "yielded" ELSE "failed"
    /\ UNCHANGED avars
    /\ UNCHANGED <<notified_at_call, got_history, generate_calls, gen_chunk,
                   accumulated_content>>
    /\ UNCHANGED nonagent

\* The consumer stops iterating (break): the generator is never resumed; when
\* it is closed, GeneratorExit is raised at the yield it is suspended at.
GenBreak ==
    /\ apc = "idle"
    /\ gen_pc \in {"created", "yielded"}
    /\ gen_pc' = "closed"
    /\ UNCHANGED avars
    /\ UNCHANGED <<notified_at_call, got_history, generate_calls, gen_chunk,
                   accumulated_content>>
    /\ UNCHANGED nonagent

\* No generator is being consumed.
GenIdle == gen_pc \in {"none", "done", "failed", "closed"}

\* The agent with its whole interface; the consumer of a streamed response
\* iterates it, or leaves it, before it makes the next call.
NextConversation ==
    \/ GenIdle /\ Initialize
    \/ \E o \in Outcomes : ProviderInitialize(o)
    \/ \E o \in Outcomes : InitOnConnectionStatus(o)
    \/ \E o \in Outcomes : InitOnError(o)
    \/ GenIdle /\ \E t \in SendTypes : SendMessage("a", t)
    \/ \E o \in Outcomes : SendOnMessage(o)
    \/ \E o \in Outcomes : GenerateResponse(o)
    \/ \E o \in Outcomes : ResponseOnMessage(o)
    \/ \E o \in Outcomes : SendOnError(o)
    \/ GenIdle /\ SetSystemPrompt("p")
    \/ GenIdle /\ ClearConversation
    \/ GenIdle /\ GetConversationHistory
    \/ GenIdle /\ Close
    \/ \E o \in Outcomes : ProviderClose(o)
    \/ \E o \in Outcomes : CloseOnConnectionStatus(o)
    \/ \E so \in {"chunk", "final_chunk", "end", "raise"} : GenResume(so)
    \/ \E o \in Outcomes : GenOnMessage(o)
    \/ GenBreak

SpecConversation == InitAgent /\ [][NextConversation]_vars

\* The call before the last one that finished.
PreviousCall == calls[Len(calls) - 1]

\* C31: a get_conversation_history that follows clear_conversation returns
\* the empty list, whatever calls were made before, and clear_conversation
\* leaves the connection status as it was.
ClearEmptiesHistory ==
    /\ [](  (/\ Returned("get_conversation_history")
             /\ Len(calls) > 1
             /\ PreviousCall.op = "clear_conversation")
          => got_history = <<>>)
    /\ [][ClearConversation => status' = status]_vars

\* A message was sent and answered, a system prompt may have been set, the
\* conversation was cleared and the history was read.
ClearedAfterConversation ==
    /\ Returned("get_conversation_history")
    /\ Len(calls) > 2
    /\ PreviousCall.op = "clear_conversation"
    /\ calls[Len(calls) - 2].op \in {"send_message", "set_system_prompt"}
    /\ calls[Len(calls) - 2].raised = "none"
    /\ status = "CONNECTED"
    /\ got_history = <<>>

\* The consumer of the generator the last send_message returned has been
\* given the chunk with is_final true, and no call was made since.
FinalChunkReceived ==
    /\ streaming
    /\ Returned("send_message")
    /\ LastCall.raised = "none"
    /\ gen_pc \in {"yielded", "closed", "done"}
    /\ gen_chunk.is_final

\* C36: with streaming enabled, once the consumer has received the final
\* chunk, the history is the history before the call, the sent message and
\* one ASSISTANT message whose content is the concatenation of the chunks,
\* also when the consumer stops iterating right after the final chunk.
StreamedResponseRecorded ==
    FinalChunkReceived =>
        conversation_history =
            hist_at_call \o <<LastCall.arg, Message("ASSISTANT", accumulated_content)>>

\* C37: a send_message made in a status other than CONNECTED raises
\* RuntimeError at once: the provider is not called, the event handler is
\* not notified and the history is left as it was; in status CONNECTED the
\* call is accepted.
SendRefusedUnlessConnected ==
    [][\A c \in Contents, t \in SendTypes :
           SendMessage(c, t) =>
               IF status = "CONNECTED"
               THEN /\ apc' # "idle"
                    /\ conversation_history' # conversation_history
               ELSE /\ apc' = "idle"
                    /\ calls'[Len(calls')] = Call("send_message", Message(t, c), "RuntimeError")
                    /\ UNCHANGED <<conversation_history, notified, generate_calls, status>>]_vars

\* send_message was refused after close() had disconnected an agent that
\* holds a conversation.
SendRefusedAfterClose ==
    /\ Returned("send_message")
    /\ LastCall.raised = "RuntimeError"
    /\ status = "DISCONNECTED"
    /\ Len(calls) > 1
    /\ PreviousCall.op = "close"
    /\ PreviousCall.raised = "none"
    /\ conversation_history # <<>>
    /\ conversation_history = hist_at_call
    /\ notified = notified_at_call

IsError(n) == n.kind = "error"
\* The last send_message ended because provider.generate_response raised.
ProviderFailedSend ==
    /\ Returned("send_message")
    /\ \/ LastCall.raised = "ProviderError"
       \/ /\ LastCall.raised = "OnErrorError"
          /\ notified # <<>>
          /\ IsError(notified[Len(notified)])
          /\ notified[Len(notified)].arg = "ProviderError"

\* C38: when provider.generate_response raised during send_message, the
\* caller gets that exception, on_error was called exactly once during the
\* call, the status is still CONNECTED and the history is what it was
\* before the call.
FailedSendLeavesNoTrace ==
    ProviderFailedSend =>
        /\ LastCall.raised = "ProviderError"
        /\ event_handler =>
               Len(SelectSeq(notified, IsError))
                   = Len(SelectSeq(notified_at_call, IsError)) + 1
        /\ status = "CONNECTED"
        /\ conversation_history = hist_at_call

\* C39: when close() has finished, by returning or by raising, the status
\* is DISCONNECTED.
ClosedAgentDisconnected ==
    Returned("close") => status = "DISCONNECTED"

\* The dispatcher and the teardown of the handler, under the fairness of
\* FairSpec.
FairSpecEvents ==
    Init /\ [][NextEvents]_vars /\ WF_vars(HandlerProgress) /\ WF_vars(TaskProgress)

\* The frames the dispatcher has written to the client.
DispatcherFrames == SelectSeq(ws_sent, NotClose)

\* C33: once end_session has requested the cancellation of the dispatcher
\* task, the dispatcher writes no further frame to the client and takes no
\* further event from the stream, and the task eventually ends cancelled.
CancelStopsDispatcher ==
    /\ [][cancel_requested =>
              /\ SelectSeq(ws_sent', NotClose) = DispatcherFrames
              /\ events_seen' = events_seen]_vars
    /\ (cancel_requested /\ receive_task = "pending") ~> (receive_task = "cancelled")

\* The dispatcher was cancelled after it had sent a frame to the client.
CancelledAfterSending ==
    /\ receive_task = "cancelled"
    /\ task_error = "CancelledError"
    /\ DispatcherFrames # <<>>

\* The session is used: audio is or was pushed to it, or the dispatcher has
\* taken an event from it, is writing a frame, or has ended.
SessionUsed ==
    \/ pushed # <<>>
    \/ hpc = "send_audio"
    \/ events_seen > 0
    \/ dpc \in {"send", "end"}

\* C34: audio is pushed and the dispatcher reads the event stream only after
\* the session context was entered and the session stored on the handler;
\* whenever the dispatcher task exists at a point where it can run, the
\* session is stored.
SessionStoredBeforeUse ==
    /\ SessionUsed =>
           /\ session = "handle"
           /\ session_context \in {"entered", "exited"}
    /\ receive_task # "none" => session = "handle"

\* Audio was pushed to the session and the dispatcher has taken an event.
SessionUsedBothWays ==
    /\ pushed # <<>>
    /\ events_seen > 0
    /\ session = "handle"
    /\ session_context = "entered"

\* ---------------------------------------------------------------------
\* AsyncRetry.__call__.
\* ---------------------------------------------------------------------

\* What a call of func does: it returns, raises an exception of one of the
\* types in self.exceptions, or raises another exception.
FuncOutcomes == {"returns", "retryable", "other"}

\* A retry object is built and called with some func.
InitRetry ==
    /\ BridgeInit
    /\ variant = "app"
    /\ event_log = <<>>
    /\ CallbackIdle
    /\ AgentNew /\ event_handler = FALSE /\ streaming = FALSE
    /\ IncomingIdle
    /\ rpc = "call"
    /\ \E m \in 0..MaxAttempts, d \in 1..3, b \in 1..2 : RetryNew(m, d, b)

\* The exception the attempt numbered a raised.
ExceptionOf(a, kind) == [kind |-> kind, attempt |-> a]

\* __call__ ends by returning v or by raising e.
RetryEnds(how, v) ==
    /\ rpc' = "done"
    /\ retry_result' = [how |-> how, value |-> v]

\* range(self.max_attempts) yields its first value and func is called, or
\* the range is empty and `raise last_exception` raises None, a TypeError.
RetryCall ==
    /\ rpc = "call"
    /\ IF max_attempts > 0
       THEN /\ rpc' = "func"
            /\ UNCHANGED retry_result
       ELSE RetryEnds("raised", ExceptionOf(0, "TypeError"))
    /\ UNCHANGED <<max_attempts, delay, backoff_factor, attempt, last_exception,
                   current_delay, func_calls, sleeps>>
    /\ UNCHANGED nonretry

SleepAfterLastAttempt == TRUE

\* attempt < self.max_attempts - 1
NotLastAttempt == attempt < max_attempts - 1

\* `await func(...)` returns or raises.
FuncDone(o) ==
    /\ rpc = "func"
    /\ func_calls' = Append(func_calls, o)
    /\ CASE o = "returns" ->
                /\ RetryEnds("returned", attempt)
                /\ UNCHANGED <<last_exception, sleeps>>
         [] o = "other" ->
                /\ RetryEnds("raised", ExceptionOf(attempt, "other"))
                /\ UNCHANGED <<last_exception, sleeps>>
         [] o = "retryable" ->
                /\ last_exception' = ExceptionOf(attempt, "retryable")
                /\ IF NotLastAttempt
                   THEN /\ rpc' = "sleep"
                        /\ sleeps' = Append(sleeps, current_delay)
                        /\ UNCHANGED retry_result
                   ELSE /\ RetryEnds("raised", ExceptionOf(attempt, "retryable"))
                        /\ UNCHANGED sleeps
    /\ UNCHANGED <<max_attempts, delay, backoff_factor, attempt, current_delay>>
    /\ UNCHANGED nonretry

\* asyncio.sleep(current_delay) returns: the delay is multiplied and the
\* loop makes the next attempt.
SleepDone ==
    /\ rpc = "sleep"
    /\ current_delay' = current_delay * backoff_factor
    /\ attempt' = attempt + 1
    /\ rpc' = "func"
    /\ UNCHANGED <<max_attempts, delay, backoff_factor, last_exception,
                   func_calls, sleeps, retry_result>>
    /\ UNCHANGED nonretry

NextRetry ==
    \/ RetryCall
    \/ \E o \in FuncOutcomes : FuncDone(o)
    \/ SleepDone

SpecRetry == InitRetry /\ [][NextRetry]_vars

\* C32: when __call__ has ended after at least one attempt: if an attempt
\* returned, it is the last call of func and its result is returned; if
\* every attempt raised a retryable exception, func was called max_attempts
\* times, max_attempts - 1 sleeps were made and the exception of the last
\* attempt is raised; an exception that is not retryable is raised at once,
\* with no attempt after it.  A sleep is made only between two attempts.
RetryUntilSuccessOrExhausted ==
    /\ Len(sleeps) = IF rpc \in {"sleep", "func"} THEN Len(func_calls)
                     ELSE IF func_calls = <<>> THEN 0 ELSE Len(func_calls) - 1
    /\ Len(func_calls) <= max_attempts
    /\ \A i \in 1..(Len(func_calls) - 1) : func_calls[i] = "retryable"
    /\ (rpc = "done" /\ func_calls # <<>>) =>
           LET n == Len(func_calls)
           IN  CASE func_calls[n] = "returns" ->
                        retry_result = [how |-> "returned", value |-> n - 1]
                 [] func_calls[n] = "other" ->
                        retry_result = [how |-> "raised", value |-> ExceptionOf(n - 1, "other")]
                 [] func_calls[n] = "retryable" ->
                        /\ n = max_attempts
                        /\ Len(sleeps) = max_attempts - 1
                        /\ retry_result =
                               [how |-> "raised", value |-> ExceptionOf(n - 1, "retryable")]

\* Every attempt of a retry with more than one attempt raised a retryable
\* exception.
RetryExhausted ==
    /\ rpc = "done"
    /\ max_attempts > 1
    /\ Len(func_calls) = max_attempts
    /\ func_calls[max_attempts] = "retryable"

\* ---------------------------------------------------------------------
\* process_incoming_call_event, as defined in calls/utils.py (the module
\* the endpoint imports it from) and in calls/process.py.
\* ---------------------------------------------------------------------

GridEvent(t, k) == [type |-> t, kind |-> k]
\* Event-Grid events: an incoming call from a phone number or from another
\* kind of caller, a subscription validation, and any other event type.
GridEvents ==
    {GridEvent("IncomingCall", "phoneNumber"), GridEvent("IncomingCall", "rawId"),
     GridEvent("SubscriptionValidation", "none"), GridEvent("Other", "none")}
GridBatches == UNION {[1..n -> GridEvents] : n \in 0..MaxBatch}

\* The arguments of client.answer_call for the event at index i.
AnswerCall(i) ==
    [event |-> i,
     callback_url |-> "https://BASE_URL/v1/calls/callbacks/guid?callerId",
     transport_url |-> "wss://BASE_URL/v1/realtime/realtime"]

InitIncoming ==
    /\ BridgeInit
    /\ variant = "app"
    /\ event_log = <<>>
    /\ CallbackIdle
    /\ AgentNew /\ event_handler = FALSE /\ streaming = FALSE
    /\ RetryIdle
    /\ in_module \in {"utils", "process"}
    /\ in_events \in GridBatches
    /\ in_i = 1
    /\ in_pc = "loop"
    /\ answer_calls = <<>>
    /\ in_result = "none"

\* The function returns v or raises it.
IncomingEnds(v) ==
    /\ in_pc' = "done"
    /\ in_result' = v

\* The end of the loop body: in calls/utils.py a `return None` stands in the
\* body of the loop, after the if/elif; calls/process.py has none and goes on
\* with the next event.
EndOfBody ==
    IF in_module = "utils"
    THEN IncomingEnds("None") /\ UNCHANGED in_i
    ELSE in_i' = in_i + 1 /\ UNCHANGED <<in_pc, in_result>>

\* One iteration of `for event in events`, or the end of the loop.  o is
\* what client.answer_call does if it is called.
IncomingStep(o) ==
    /\ in_pc = "loop"
    /\ IF in_i > Len(in_events)
       THEN /\ IncomingEnds("None")
            /\ UNCHANGED <<in_i, answer_calls>>
       ELSE LET event == in_events[in_i]
            IN  CASE event.type = "IncomingCall" ->
                         /\ answer_calls' = Append(answer_calls, AnswerCall(in_i))
                         /\ IF o = "ok"
                            THEN EndOfBody
                            ELSE IncomingEnds("HttpResponseError") /\ UNCHANGED in_i
                  [] event.type = "SubscriptionValidation" ->
                         /\ IncomingEnds("ValidationResponse")
                         /\ UNCHANGED <<in_i, answer_calls>>
                  [] OTHER ->
                         /\ EndOfBody
                         /\ UNCHANGED answer_calls
    /\ UNCHANGED <<in_module, in_events>>
    /\ UNCHANGED nonincoming

NextIncoming == \E o \in Outcomes : IncomingStep(o)

SpecIncoming == InitIncoming /\ [][NextIncoming]_vars

\* The event at index i precedes the first subscription validation.
BeforeValidation(i) ==
    \A j \in 1..i : in_events[j].type # "SubscriptionValidation"

\* C35: when process_incoming_call_event has returned, every incoming-call
\* event before the first subscription-validation event of the batch was
\* answered with exactly one answer_call, which carries a callback URL and
\* the websocket URL as media-streaming target, whatever events precede it.
IncomingCallsAnswered ==
    (in_pc = "done" /\ in_result # "HttpResponseError") =>
        \A i \in 1..Len(in_events) :
            (in_events[i].type = "IncomingCall" /\ BeforeValidation(i)) =>
                /\ Cardinality({k \in 1..Len(answer_calls) : answer_calls[k].event = i}) = 1
                /\ \A k \in 1..Len(answer_calls) :
                       answer_calls[k].event = i => answer_calls[k] = AnswerCall(i)

====
